---- MODULE Spec2Model ----
(***************************************************************************)
(* The Lewis Ratchet: raft recoil under quadratic drag.                    *)
(*                                                                         *)
(* The program computes with Python floats (IEEE-754 binary64: every       *)
(* arithmetic result is the exact result rounded to the nearest value      *)
(* with a 53-bit significand, ties to even).  The model keeps that         *)
(* arithmetic and shortens the significand to Precision bits: a number is  *)
(* a record [m, e] standing for m * 2^e with m odd (or m = 0, e = 0) and   *)
(* |m| < 2^Precision, and every operation rounds its exact result to the   *)
(* nearest such number, ties to even.  The exponent is unbounded, so the   *)
(* model covers the range in which binary64 neither overflows nor          *)
(* underflows.                                                             *)
(***************************************************************************)
EXTENDS Integers, Sequences, FiniteSets, TLC

\* Significand width of the model's floating-point numbers (53 in binary64).
Precision == 5

\* Largest max_steps argument drawn for a direct call of simulate_throw_event.
MaxStepsBound == 4

(***************************************************************************)
(* Floating-point arithmetic                                               *)
(***************************************************************************)
\* Python evaluates the operands of an operation once, before the operation
\* (call by value): Call1, Call2 and Call3 apply an operation to the values of
\* its operands.
Call1(Op(_), x) == CHOOSE r \in {Op(a) : a \in {x}} : TRUE

Call2(Op(_, _), x, y) == CHOOSE r \in {Op(a, b) : a \in {x}, b \in {y}} : TRUE

Call3(Op(_, _, _), x, y, z) ==
    CHOOSE r \in {Op(a, b, c) : a \in {x}, b \in {y}, c \in {z}} : TRUE

\* The widest integer the arithmetic below forms has fewer than MaxBits bits.
MaxBits == 30

Pow2(n) == IF n <= 0 THEN 1 ELSE 2^n

\* The number of bits of n > 0; 0 for n <= 0.
BitLenV(n) ==
    IF n <= 0 THEN 0
    ELSE CHOOSE b \in 1..MaxBits : Pow2(b - 1) <= n /\ n < Pow2(b)

BitLen(n) == Call1(BitLenV, n)

AbsInt(n) == IF n < 0 THEN -n ELSE n

SgnInt(n) == IF n < 0 THEN -1 ELSE IF n > 0 THEN 1 ELSE 0

\* The number of trailing zero bits of n # 0.
TrailingZeros(n) == CHOOSE t \in 0..MaxBits : n % Pow2(t) = 0 /\ n % Pow2(t + 1) # 0

\* The number n * 2^e written with an odd significand.
NormV(n, e) ==
    LET Shift(t) == [m |-> n \div Pow2(t), e |-> e + t]
    IN  IF n = 0 THEN [m |-> 0, e |-> 0] ELSE Call1(Shift, TrailingZeros(n))

Norm(n, e) == Call2(NormV, n, e)

\* n * 2^e rounded to Precision significant bits, ties to even: s is the
\* number of bits of |n| beyond Precision.
RoundV(n, e) ==
    LET Drop(s) ==
            LET k    == AbsInt(n)
                q    == k \div Pow2(s)
                r    == k % Pow2(s)
                half == Pow2(s - 1)
                up   == r > half \/ (r = half /\ q % 2 = 1)
                q2   == IF up THEN q + 1 ELSE q
            IN  IF s <= 0 THEN Norm(n, e) ELSE Norm(SgnInt(n) * q2, e + s)
    IN  Call1(Drop, BitLen(AbsInt(n)) - Precision)

Round(n, e) == Call2(RoundV, n, e)

\* (n / d) * 2^e for integers n and d # 0, correctly rounded: the quotient is
\* taken to Precision + 2 bits at least and the remainder kept as a sticky bit.
RoundRatV(n, d, e) ==
    LET Quotient(K) ==
            LET sg     == SgnInt(n) * SgnInt(d)
                nn     == AbsInt(n)
                dd     == AbsInt(d)
                q      == (nn * Pow2(K)) \div dd
                sticky == IF (nn * Pow2(K)) % dd = 0 THEN 0 ELSE 1
            IN  Round(sg * (2 * q + sticky), e - K - 1)
    IN  Call1(Quotient, BitLen(AbsInt(d)) + Precision + 2)

RoundRat(n, d, e) == Call3(RoundRatV, n, d, e)

Zero == [m |-> 0, e |-> 0]

FromInt(n) == Round(n, 0)

\* A decimal literal n/d of the source, as Python reads it.
Lit(n, d) == RoundRat(n, d, 0)

\* The literals 0.5 and 2 of the source.
Half == Lit(1, 2)

Two == FromInt(2)

NegV(x) == [m |-> -x.m, e |-> x.e]

Neg(x) == Call1(NegV, x)

AbsV(x) == [m |-> AbsInt(x.m), e |-> x.e]

Abs(x) == Call1(AbsV, x)

MulV(x, y) == Round(x.m * y.m, x.e + y.e)

Mul(x, y) == Call2(MulV, x, y)

DivV(x, y) == RoundRat(x.m, y.m, x.e - y.e)

Div(x, y) == Call2(DivV, x, y)

\* x + y.  When the exponents are further apart than 2 * Precision + 1 the
\* operand of the smaller exponent is below a quarter of the other's last
\* place, and the sum rounds to the other operand.
AddV(x, y) ==
    IF x.m = 0 THEN y
    ELSE IF y.m = 0 THEN x
    ELSE IF x.e - y.e > 2 * Precision + 1 THEN x
    ELSE IF y.e - x.e > 2 * Precision + 1 THEN y
    ELSE IF x.e >= y.e THEN Round(x.m * Pow2(x.e - y.e) + y.m, y.e)
    ELSE Round(x.m + y.m * Pow2(y.e - x.e), x.e)

Add(x, y) == Call2(AddV, x, y)

Sub(x, y) == Add(x, Neg(y))

Lt(x, y) == Sub(x, y).m < 0

Gt(x, y) == Lt(y, x)

Leq(x, y) == ~Lt(y, x)

\* The integer square root of n >= 0.
RECURSIVE ISqrt(_)
ISqrtV(n) ==
    IF n < 2 THEN n
    ELSE CHOOSE r \in {IF (s + 1) * (s + 1) <= n THEN s + 1 ELSE s :
                       s \in {2 * ISqrt(n \div 4)}} : TRUE

ISqrt(n) == Call1(ISqrtV, n)

\* math.sqrt(x) for x >= 0, correctly rounded.
SqrtV(x) ==
    LET K0 == 2 * Precision + 4
        K  == IF (x.e - K0) % 2 = 0 THEN K0 ELSE K0 + 1
        n  == x.m * Pow2(K)
        s  == ISqrt(n)
        sticky == IF s * s = n THEN 0 ELSE 1
    IN  Round(2 * s + sticky, ((x.e - K) \div 2) - 1)

Sqrt(x) == Call1(SqrtV, x)

\* n1 * 2^e1 <= n2 * 2^e2 in exact arithmetic, for n1, n2 >= 0.
ExactLeq(n1, e1, n2, e2) ==
    IF n1 = 0 THEN TRUE
    ELSE IF n2 = 0 THEN FALSE
    ELSE IF BitLen(n1) + e1 < BitLen(n2) + e2 THEN TRUE
    ELSE IF BitLen(n1) + e1 > BitLen(n2) + e2 THEN FALSE
    ELSE IF e1 >= e2 THEN n1 * Pow2(e1 - e2) <= n2
    ELSE n1 <= n2 * Pow2(e2 - e1)

(***************************************************************************)
(* Program constants                                                       *)
(***************************************************************************)
\* def simulate_throw_event(..., max_steps=10000)
DefaultMaxSteps == 10000

\* main: num_balls = 4
num_balls == 4

\* simulate_walking_event: num_steps = 10
num_steps == 10

\* The arguments main passes to simulate_throw_event.
MainArgs ==
    [m_platform  |-> FromInt(160),
     m_ball      |-> FromInt(5),
     v_throw     |-> FromInt(5),
     drag_coeff  |-> Lit(5, 100),
     dt          |-> Lit(1, 100),
     v_threshold |-> Lit(1, 100),
     max_steps   |-> DefaultMaxSteps]

\* The arguments of the script's call of simulate_walking_event.
ScriptWalkArgs ==
    [m_platform     |-> FromInt(160),
     m_person       |-> FromInt(100),
     total_distance |-> FromInt(10),
     a_person       |-> Lit(2, 10),
     drag_coeff     |-> Lit(5, 100)]

(***************************************************************************)
(* Arguments drawn for the direct calls                                    *)
(***************************************************************************)
MPlatformVals == {FromInt(-1), Zero, FromInt(1), FromInt(16), FromInt(25)}

MBallVals == {Neg(Half), FromInt(1)}

VThrowVals == {FromInt(-17), Lit(1, 4), FromInt(5)}

DragCoeffVals == {FromInt(-1), Zero, Lit(5, 100), Lit(3, 2), FromInt(8)}

DtVals == {Lit(1, 100), FromInt(1), FromInt(20)}

VThresholdVals == {Lit(1, 100), Lit(1, 2)}

MPersonVals == {FromInt(-1), Zero, FromInt(100)}

TotalDistanceVals == {FromInt(10), FromInt(3)}

APersonVals == {FromInt(-1), Zero, Lit(2, 10), FromInt(2)}

WalkMPlatformVals == {FromInt(-1), Zero, FromInt(160)}

WalkDragCoeffVals == {Zero, Lit(5, 100)}

(***************************************************************************)
(* State                                                                   *)
(***************************************************************************)
VARIABLES
    entry,      \* the function called: "throw", "walk" or "main"
    pc,         \* the position of the running code
    err,        \* the exception that ended the call, or "none"
    T,          \* locals of simulate_throw_event
    W,          \* locals of simulate_walking_event
    M,          \* locals of main
    returned    \* the results simulate_throw_event returned to main, in order

vars == <<entry, pc, err, T, W, M, returned>>

\* The frame of simulate_throw_event on entry: arguments bound, locals unset.
ThrowFrame(args) ==
    [m_platform  |-> args.m_platform,
     m_ball      |-> args.m_ball,
     v_throw     |-> args.v_throw,
     drag_coeff  |-> args.drag_coeff,
     dt          |-> args.dt,
     v_threshold |-> args.v_threshold,
     max_steps   |-> args.max_steps,
     impulse |-> Zero, v |-> Zero, displacement |-> Zero, time_elapsed |-> Zero,
     energy_dissipated |-> Zero, step_count |-> 0, drag_force |-> Zero, a |-> Zero,
     v_old |-> Zero, dx |-> Zero, dW |-> Zero, initial_KE |-> Zero]

\* The frame of simulate_walking_event on entry.
WalkFrame(args) ==
    [m_platform     |-> args.m_platform,
     m_person       |-> args.m_person,
     total_distance |-> args.total_distance,
     a_person       |-> args.a_person,
     drag_coeff     |-> args.drag_coeff,
     step_distance |-> Zero, cumulative_raft_disp |-> Zero, total_time |-> Zero,
     step |-> 0, d_half |-> Zero, t_accel |-> Zero, reaction_force |-> Zero,
     max_step_energy |-> Zero, adjusted_time |-> Zero, raft_disp_step |-> Zero]

\* The frame of main before its first statement.
MainFrame ==
    [i |-> 0, total_raft_disp_throws |-> Zero, total_time_throws |-> Zero,
     total_energy_dissipated_throws |-> Zero,
     disp |-> Zero, t_elapsed |-> Zero, energy_diss |-> Zero]

ThrowArgs ==
    [m_platform : MPlatformVals, m_ball : MBallVals, v_throw : VThrowVals,
     drag_coeff : DragCoeffVals, dt : DtVals, v_threshold : VThresholdVals,
     max_steps : 0..MaxStepsBound]

WalkArgs ==
    [m_platform : WalkMPlatformVals, m_person : MPersonVals,
     total_distance : TotalDistanceVals, a_person : APersonVals,
     drag_coeff : WalkDragCoeffVals]

\* Before the call: one of the three functions is about to be called.  No
\* frame exists yet; T and W hold the frames of the script's own calls.
InitAt(e) ==
    /\ entry = e
    /\ pc = "call"
    /\ err = "none"
    /\ T = ThrowFrame(MainArgs)
    /\ W = WalkFrame(ScriptWalkArgs)
    /\ M = MainFrame
    /\ returned = <<>>

Init == \E e \in {"throw", "walk", "main"} : InitAt(e)

(***************************************************************************)
(* simulate_throw_event                                                    *)
(***************************************************************************)
\* impulse = m_ball * v_throw
Impulse(m_ball, v_throw) == Mul(m_ball, v_throw)

RecoilVelocitySameSign(impulse, m_platform) == Div(impulse, m_platform)

\* v = -impulse / m_platform
RecoilVelocity(impulse, m_platform) == Div(Neg(impulse), m_platform)

DragForceNoCoeff(drag_coeff, v) == Mul(Mul(Neg(Half), v), Abs(v))

DragForcePushes(drag_coeff, v) == Mul(Mul(Mul(Half, drag_coeff), v), Abs(v))

\* drag_force = -0.5 * drag_coeff * v * abs(v)
DragForce(drag_coeff, v) == Mul(Mul(Mul(Neg(Half), drag_coeff), v), Abs(v))

StepWorkSigned(drag_force, dx) == Mul(drag_force, dx)

\* dW = abs(drag_force * dx)
StepWork(drag_force, dx) == Abs(Mul(drag_force, dx))

LoopCondNoBudget(f) == Gt(Abs(f.v), f.v_threshold)

\* while abs(v) > v_threshold and step_count < max_steps
LoopCond(f) == Gt(Abs(f.v), f.v_threshold) /\ f.step_count < f.max_steps

\* initial_KE = 0.5 * m_platform * (impulse / m_platform) ** 2
InitialKE(impulse, m_platform) ==
    Mul(Mul(Half, m_platform),
        Mul(Div(impulse, m_platform), Div(impulse, m_platform)))

\* Lines 15-25: the statements before the loop.  The division raises
\* ZeroDivisionError when m_platform is zero.
ThrowBegin(f) ==
    IF f.m_platform = Zero
    THEN /\ T' = [f EXCEPT !.impulse = Impulse(f.m_ball, f.v_throw)]
         /\ pc' = "error"
         /\ err' = "ZeroDivisionError"
    ELSE /\ T' = [f EXCEPT
                    !.impulse = Impulse(f.m_ball, f.v_throw),
                    !.v = RecoilVelocity(Impulse(f.m_ball, f.v_throw), f.m_platform),
                    !.displacement = Zero,
                    !.time_elapsed = Zero,
                    !.energy_dissipated = Zero,
                    !.step_count = 0]
         /\ pc' = "throw_loop"
         /\ err' = "none"

\* A direct call of simulate_throw_event.
ThrowEntry ==
    /\ pc = "call"
    /\ entry = "throw"
    /\ \E args \in ThrowArgs : ThrowBegin(ThrowFrame(args))
    /\ UNCHANGED <<entry, W, M, returned>>

\* Lines 28-37: one pass through the loop body, each statement evaluated once
\* and in the order of the source.
StepBody(f) ==
    LET AfterWork(drag_force, a, v_old, v, dx, dW) ==
            [f EXCEPT
                !.drag_force = drag_force,
                !.a = a,
                !.v_old = v_old,
                !.v = v,
                !.dx = dx,
                !.displacement = Add(f.displacement, dx),
                !.dW = dW,
                !.energy_dissipated = Add(f.energy_dissipated, dW),
                !.time_elapsed = Add(f.time_elapsed, f.dt),
                !.step_count = f.step_count + 1]
        AfterDx(drag_force, a, dx) ==
            CHOOSE g \in {AfterWork(drag_force, a, f.v, Add(f.v, Mul(a, f.dt)), dx, dW) :
                          dW \in {StepWork(drag_force, dx)}} : TRUE
        AfterForce(drag_force) ==
            CHOOSE g \in {AfterDx(drag_force, a, dx) :
                          a \in {Div(drag_force, f.m_platform)},
                          dx \in {Mul(f.v, f.dt)}} : TRUE
    IN  CHOOSE g \in {AfterForce(drag_force) :
                      drag_force \in {DragForce(f.drag_coeff, f.v)}} : TRUE

ThrowStep ==
    /\ pc = "throw_loop"
    /\ LoopCond(T)
    /\ T' = StepBody(T)
    /\ UNCHANGED <<entry, pc, err, W, M, returned>>

\* Lines 27, 39-43: the loop condition fails and the function returns.
ThrowReturn ==
    /\ pc = "throw_loop"
    /\ ~LoopCond(T)
    /\ T' = [T EXCEPT !.initial_KE = InitialKE(T.impulse, T.m_platform)]
    /\ pc' = IF entry = "main" THEN "main_accum" ELSE "throw_done"
    /\ UNCHANGED <<entry, err, W, M, returned>>

\* The tuple simulate_throw_event returns.
ThrowResult(f) ==
    [displacement      |-> f.displacement,
     time_elapsed      |-> f.time_elapsed,
     energy_dissipated |-> f.energy_dissipated]

(***************************************************************************)
(* main                                                                    *)
(***************************************************************************)
\* Lines 46-68: parameters and zeroed totals; the for loop starts at i = 1.
MainEntry ==
    /\ pc = "call"
    /\ entry = "main"
    /\ M' = [MainFrame EXCEPT !.i = 1]
    /\ pc' = "main_loop"
    /\ UNCHANGED <<entry, err, T, W, returned>>

\* Line 72: the call of simulate_throw_event for throw i.
MainCall ==
    /\ pc = "main_loop"
    /\ M.i <= num_balls
    /\ ThrowBegin(ThrowFrame(MainArgs))
    /\ UNCHANGED <<entry, W, M, returned>>

AccumulateOverwrite(total, x) == x

\* total += x
Accumulate(total, x) == Add(total, x)

\* Lines 72-75: the result is unpacked and added to the totals.
MainAccumulate ==
    /\ pc = "main_accum"
    /\ M' = [M EXCEPT
                !.disp = T.displacement,
                !.t_elapsed = T.time_elapsed,
                !.energy_diss = T.energy_dissipated,
                !.total_raft_disp_throws =
                    Accumulate(M.total_raft_disp_throws, T.displacement),
                !.total_time_throws =
                    Accumulate(M.total_time_throws, T.time_elapsed),
                !.total_energy_dissipated_throws =
                    Accumulate(M.total_energy_dissipated_throws, T.energy_dissipated),
                !.i = M.i + 1]
    /\ returned' = Append(returned, ThrowResult(T))
    /\ pc' = "main_loop"
    /\ UNCHANGED <<entry, err, T, W>>

\* Lines 77-86: the loop is over and main returns the totals.
MainReturn ==
    /\ pc = "main_loop"
    /\ M.i > num_balls
    /\ pc' = "main_done"
    /\ UNCHANGED <<entry, err, T, W, M, returned>>

(***************************************************************************)
(* simulate_walking_event                                                  *)
(***************************************************************************)
\* Lines 134-137, for a call with arguments from WalkArgs.
WalkEntry ==
    /\ pc = "call"
    /\ entry = "walk"
    /\ \E args \in WalkArgs :
          W' = [WalkFrame(args) EXCEPT
                  !.step_distance = Div(args.total_distance, FromInt(num_steps)),
                  !.cumulative_raft_disp = Zero,
                  !.total_time = Zero,
                  !.step = 1]
    /\ pc' = "walk_loop"
    /\ UNCHANGED <<entry, err, T, M, returned>>

AdjustedTimeHalfStep(step_distance, a_person, max_step_energy, t_accel) == t_accel

\* adjusted_time = math.sqrt(2 * step_distance / a_person) if max_step_energy > 0 else t_accel
AdjustedTime(step_distance, a_person, max_step_energy, t_accel) ==
    IF Gt(max_step_energy, Zero)
    THEN Sqrt(Div(Mul(Two, step_distance), a_person))
    ELSE t_accel

\* raft_disp_step = 0.0
RaftDispStep == Zero

\* Lines 143-157: one walk step.  2 * d_half / a_person raises
\* ZeroDivisionError for a_person = 0, math.sqrt raises ValueError for a
\* negative argument, and the division by 2 * m_platform raises
\* ZeroDivisionError for m_platform = 0.
WalkStep ==
    /\ pc = "walk_loop"
    /\ W.step <= num_steps
    /\ LET d_half == Div(W.step_distance, Two)
           f1     == [W EXCEPT !.d_half = d_half]
       IN  IF W.a_person = Zero
           THEN /\ W' = f1
                /\ pc' = "error"
                /\ err' = "ZeroDivisionError"
           ELSE IF Lt(Div(Mul(Two, d_half), W.a_person), Zero)
           THEN /\ W' = f1
                /\ pc' = "error"
                /\ err' = "ValueError"
           ELSE LET t_accel        == Sqrt(Div(Mul(Two, d_half), W.a_person))
                    reaction_force == Mul(Neg(W.m_person), W.a_person)
                    f2 == [f1 EXCEPT !.t_accel = t_accel,
                                     !.reaction_force = reaction_force]
                IN  IF W.m_platform = Zero
                    THEN /\ W' = f2
                         /\ pc' = "error"
                         /\ err' = "ZeroDivisionError"
                    ELSE LET max_step_energy ==
                                 Div(Mul(reaction_force, reaction_force),
                                     Mul(Two, W.m_platform))
                             adjusted_time ==
                                 AdjustedTime(W.step_distance, W.a_person,
                                              max_step_energy, t_accel)
                         IN  /\ W' = [f2 EXCEPT
                                        !.max_step_energy = max_step_energy,
                                        !.adjusted_time = adjusted_time,
                                        !.raft_disp_step = RaftDispStep,
                                        !.cumulative_raft_disp =
                                            Add(W.cumulative_raft_disp, RaftDispStep),
                                        !.total_time = Add(W.total_time, adjusted_time),
                                        !.step = W.step + 1]
                             /\ pc' = "walk_loop"
                             /\ err' = "none"
    /\ UNCHANGED <<entry, T, M, returned>>

\* Lines 159-162: the for loop is over and the function returns.
WalkReturn ==
    /\ pc = "walk_loop"
    /\ W.step > num_steps
    /\ pc' = "walk_done"
    /\ UNCHANGED <<entry, err, T, W, M, returned>>

Next ==
    \/ ThrowEntry
    \/ ThrowStep
    \/ ThrowReturn
    \/ MainEntry
    \/ MainCall
    \/ MainAccumulate
    \/ MainReturn
    \/ WalkEntry
    \/ WalkStep
    \/ WalkReturn

\* Every entry point.
Spec == Init /\ [][Next]_vars

\* A direct call of simulate_throw_event with arguments from ThrowArgs.
ThrowNext ==
    \/ ThrowEntry
    \/ ThrowStep
    \/ ThrowReturn

ThrowInit == InitAt("throw")

ThrowSpec == ThrowInit /\ [][ThrowNext]_vars

\* The interpreter keeps running the function it has entered: the loop body
\* or the return that can be taken next is taken.
ThrowLiveSpec == ThrowSpec /\ WF_vars(ThrowStep \/ ThrowReturn)

\* A direct call of simulate_walking_event with arguments from WalkArgs.
WalkNext ==
    \/ WalkEntry
    \/ WalkStep
    \/ WalkReturn

WalkInit == InitAt("walk")

WalkSpec == WalkInit /\ [][WalkNext]_vars

\* The module-level call of main.
MainNext ==
    \/ MainEntry
    \/ MainCall
    \/ ThrowStep
    \/ ThrowReturn
    \/ MainAccumulate
    \/ MainReturn

MainInit == InitAt("main")

MainSpec == MainInit /\ [][MainNext]_vars

(***************************************************************************)
(* Properties                                                              *)
(***************************************************************************)
Positive(x) == x.m > 0

Negative(x) == x.m < 0

Sgn(x) == SgnInt(x.m)

\* The locals of simulate_throw_event are initialised.
InThrow == pc \in {"throw_loop", "throw_done", "main_accum"}

\* simulate_throw_event has returned.
ThrowReturned == pc \in {"throw_done", "main_accum"}

\* The recoil velocity the call starts from.
V0(f) == RecoilVelocity(Impulse(f.m_ball, f.v_throw), f.m_platform)

\* c * |u| * dt * 2^k <= m_platform in exact arithmetic.
DragRatioLeq(f, u, k) ==
    ExactLeq(AbsInt(f.drag_coeff.m * u.m * f.dt.m),
             f.drag_coeff.e + u.e + f.dt.e + k,
             f.m_platform.m, f.m_platform.e)

\* The preconditions the claims give for the integrator.
IntegratorInputs(f) ==
    Positive(f.m_platform) /\ Positive(f.dt) /\ ~Negative(f.drag_coeff)

\* Arguments the spec calls valid for a throw.
ValidThrow(f) == IntegratorInputs(f) /\ Positive(f.m_ball)

----------------------------------------------------------------------------
----------------------------------------------------------------------------
\* C2 as stated (for valid arguments): with drag_coeff = 0 the velocity stays
\* the recoil velocity, exactly max_steps steps are executed and
\* energy_dissipated is 0.
C2_Original ==
    (pc = "throw_done" /\ ValidThrow(T) /\ T.drag_coeff = Zero) =>
        /\ T.v = V0(T)
        /\ T.step_count = T.max_steps
        /\ T.energy_dissipated = Zero

\* C2 amended: with drag_coeff = 0 the velocity stays the recoil velocity in
\* every state of the loop and energy_dissipated stays 0; the call executes
\* exactly max_steps steps when |v0| > v_threshold and no step otherwise.
C2_ZeroDrag ==
    (InThrow /\ T.drag_coeff = Zero) =>
        /\ T.v = V0(T)
        /\ T.energy_dissipated = Zero
        /\ pc = "throw_done" =>
              T.step_count = IF Gt(Abs(V0(T)), T.v_threshold) THEN T.max_steps ELSE 0

C2_Witness ==
    /\ pc = "throw_done"
    /\ ValidThrow(T)
    /\ T.drag_coeff = Zero
    /\ T.step_count = T.max_steps
    /\ T.max_steps >= 3
    /\ T.v # Zero
    /\ T.displacement # Zero

----------------------------------------------------------------------------
\* C3 as stated: for drag_coeff > 0, m_platform > 0 and dt > 0 no step
\* increases the velocity magnitude.
C3_Original ==
    (InThrow /\ T.step_count > 0 /\ ValidThrow(T) /\ Positive(T.drag_coeff)) =>
        Leq(Abs(T.v), Abs(T.v_old))

\* C3 amended: for drag_coeff > 0, m_platform > 0 and dt > 0, a step taken
\* from a velocity v_old with 0.5 * drag_coeff * |v_old| * dt <= m_platform
\* does not increase the velocity magnitude.
C3_Decay ==
    (/\ InThrow
     /\ T.step_count > 0
     /\ IntegratorInputs(T)
     /\ Positive(T.drag_coeff)
     /\ DragRatioLeq(T, T.v_old, -1)) =>
        Leq(Abs(T.v), Abs(T.v_old))

\* Two steps of strict decay.
C3_Witness ==
    /\ InThrow
    /\ T.step_count >= 2
    /\ IntegratorInputs(T)
    /\ Positive(T.drag_coeff)
    /\ DragRatioLeq(T, T.v_old, -1)
    /\ Lt(Abs(T.v), Abs(T.v_old))
    /\ T.v # Zero

----------------------------------------------------------------------------
\* C4: when simulate_throw_event returns, the velocity magnitude is at most
\* v_threshold (drag_coeff > 0, m_platform > 0, dt > 0; main's scenario).
C4_Original ==
    (ThrowReturned /\ ValidThrow(T) /\ Positive(T.drag_coeff)) =>
        Leq(Abs(T.v), T.v_threshold)

----------------------------------------------------------------------------
\* An argument the spec calls invalid.
InvalidThrow(f) ==
    \/ ~Positive(f.m_platform)
    \/ ~Positive(f.m_ball)
    \/ Negative(f.drag_coeff)

InvalidWalk(f) ==
    \/ ~Positive(f.m_platform)
    \/ ~Positive(f.m_person)
    \/ ~Positive(f.a_person)
    \/ Negative(f.drag_coeff)

\* C5: a call with an invalid physical parameter ends in a domain error
\* raised before any integration step or walk step, and returns no result.
C5_Original ==
    /\ (entry = "throw" /\ pc # "call" /\ InvalidThrow(T)) =>
          /\ pc # "throw_done"
          /\ T.step_count = 0
    /\ (entry = "walk" /\ pc # "call" /\ InvalidWalk(W)) =>
          /\ pc # "walk_done"
          /\ W.step <= 1

----------------------------------------------------------------------------
\* m_platform * v + m_ball * v_throw, as the program's arithmetic computes it.
Momentum(f) == Add(Mul(f.m_platform, f.v), Mul(f.m_ball, f.v_throw))

\* Four units of rounding error: 2^(2 - Precision).
MomentumTolerance == [m |-> 1, e |-> 2 - Precision]

\* C6 as stated: the recoil velocity assigned before the first step satisfies
\* m_platform * v0 + m_ball * v_throw = 0.
C6_Original ==
    (/\ pc = "throw_loop"
     /\ T.step_count = 0
     /\ Positive(T.m_platform)
     /\ Positive(T.m_ball)) =>
        Momentum(T) = Zero

\* C6 amended: the recoil velocity satisfies the momentum balance up to
\* rounding: |m_platform * v0 + m_ball * v_throw| is at most four units of
\* rounding error times |m_ball * v_throw|.
C6_Momentum ==
    (/\ pc = "throw_loop"
     /\ T.step_count = 0
     /\ Positive(T.m_platform)
     /\ Positive(T.m_ball)) =>
        Leq(Abs(Momentum(T)), Mul(MomentumTolerance, Abs(Mul(T.m_ball, T.v_throw))))

\* A recoil velocity that the division rounded.
C6_Witness ==
    /\ pc = "throw_loop"
    /\ T.step_count = 0
    /\ Positive(T.m_platform)
    /\ Positive(T.m_ball)
    /\ T.v # Zero
    /\ AbsInt(T.v.m) >= Pow2(Precision - 1)

----------------------------------------------------------------------------
ValidWalk(f) ==
    /\ Positive(f.m_platform)
    /\ Positive(f.m_person)
    /\ Positive(f.total_distance)
    /\ Positive(f.a_person)
    /\ ~Negative(f.drag_coeff)

\* sqrt(2 * step_distance / a_person) for step_distance = total_distance / 10.
StepDuration(f) ==
    Sqrt(Div(Mul(Two, Div(f.total_distance, FromInt(num_steps))), f.a_person))

\* x added k times to 0.0, in the program's arithmetic.
RECURSIVE SumRepeat(_, _)
SumRepeat(k, x) == IF k = 0 THEN Zero ELSE Add(SumRepeat(k - 1, x), x)

----------------------------------------------------------------------------
\* The sum of the field `fld` of the results in `seq`, added in order.
RECURSIVE SumField(_, _)
SumField(seq, fld) ==
    IF seq = <<>> THEN Zero
    ELSE Add(SumField(SubSeq(seq, 1, Len(seq) - 1), fld), seq[Len(seq)][fld])

\* The orders in which n events can be summed.
Orders(n) == {p \in [1..n -> 1..n] : \A j, k \in 1..n : p[j] = p[k] => j = k}

Reordered(seq, p) == [j \in 1..Len(seq) |-> seq[p[j]]]

TotalsAre(seq) ==
    /\ M.total_raft_disp_throws = SumField(seq, "displacement")
    /\ M.total_time_throws = SumField(seq, "time_elapsed")
    /\ M.total_energy_dissipated_throws = SumField(seq, "energy_dissipated")

\* C8: in main, after k throw events each total is the sum of the
\* corresponding fields of those k results; every event returns the same
\* result, so the totals are the same for every order of summation and the
\* final totals are num_balls times the single-throw result.
C8_Totals ==
    (entry = "main" /\ pc \in {"main_loop", "main_done"}) =>
        /\ Len(returned) = M.i - 1
        /\ TotalsAre(returned)
        /\ \A j \in 1..Len(returned) : returned[j] = returned[1]
        /\ \A p \in Orders(Len(returned)) : TotalsAre(Reordered(returned, p))
        /\ pc = "main_done" =>
              /\ Len(returned) = num_balls
              /\ M.total_raft_disp_throws =
                     Mul(FromInt(num_balls), returned[1].displacement)
              /\ M.total_time_throws =
                     Mul(FromInt(num_balls), returned[1].time_elapsed)
              /\ M.total_energy_dissipated_throws =
                     Mul(FromInt(num_balls), returned[1].energy_dissipated)

C8_Witness ==
    /\ pc = "main_done"
    /\ Len(returned) = num_balls
    /\ M.total_raft_disp_throws # Zero
    /\ M.total_time_throws # Zero
    /\ M.total_raft_disp_throws # returned[1].displacement

----------------------------------------------------------------------------
\* C9: for m_platform > 0, dt > 0 and drag_coeff >= 0, energy_dissipated is
\* never negative and no integration step decreases it, whatever the sign of
\* the velocity.
C9_Energy ==
    /\ []((InThrow /\ IntegratorInputs(T)) => ~Negative(T.energy_dissipated))
    /\ [][(/\ pc = "throw_loop"
           /\ IntegratorInputs(T)
           /\ T'.step_count = T.step_count + 1) =>
              Leq(T.energy_dissipated, T'.energy_dissipated)]_vars

\* Energy has been added on a step whose velocity had overshot zero.
C9_Witness ==
    /\ pc = "throw_loop"
    /\ IntegratorInputs(T)
    /\ T.step_count >= 2
    /\ Sgn(T.v_old) = -Sgn(V0(T))
    /\ Positive(T.dW)
    /\ Gt(T.energy_dissipated, T.dW)

----------------------------------------------------------------------------
\* The conclusions of C10 in one state: the velocity has the sign of v0 or is
\* 0, the last dx has the sign of v0, and the displacement is 0 or of the sign
\* of v0, which is opposite to v_throw.
C10_Signs ==
    /\ Sgn(T.v) \in {0, Sgn(V0(T))}
    /\ T.step_count > 0 => Sgn(T.dx) = Sgn(V0(T))
    /\ Sgn(T.displacement) \in {0, Sgn(V0(T))}
    /\ Sgn(T.displacement) \in {0, -Sgn(T.v_throw)}

C10_Grows ==
    (pc = "throw_loop" /\ T'.step_count = T.step_count + 1) =>
        Leq(Abs(T.displacement), Abs(T'.displacement))

C10_Inputs == InThrow /\ ValidThrow(T)

\* C10 as stated: if 0.5 * drag_coeff * |v0| * dt <= m_platform, the velocity
\* never changes sign, every dx has the sign of v0, and the displacement is
\* zero or opposite to v_throw with a magnitude that never decreases.
C10_Original ==
    /\ []((C10_Inputs /\ DragRatioLeq(T, V0(T), -1)) => C10_Signs)
    /\ [][(C10_Inputs /\ DragRatioLeq(T, V0(T), -1)) => C10_Grows]_vars

\* C10 amended: the same conclusions under 0.5 * drag_coeff * |v0| * dt <=
\* m_platform / 2, a margin that the rounding of the step cannot cross.
C10_NoSignChange ==
    /\ []((C10_Inputs /\ DragRatioLeq(T, V0(T), 0)) => C10_Signs)
    /\ [][(C10_Inputs /\ DragRatioLeq(T, V0(T), 0)) => C10_Grows]_vars

C10_Witness ==
    /\ pc = "throw_loop"
    /\ C10_Inputs
    /\ Positive(T.drag_coeff)
    /\ DragRatioLeq(T, V0(T), 0)
    /\ T.step_count >= 2
    /\ Lt(Abs(T.v), Abs(T.v_old))
    /\ T.displacement # Zero
====
